---- MODULE Spec2Model ----
(***************************************************************************)
(* magickey: the per-keyboard translation engine (KeyboardMapping) that    *)
(* consumes evdev input events and writes events to a uinput device, with  *)
(* the rule matching (KeyMapping.is_match) and the focused window kept by  *)
(* SwayClient.                                                             *)
(***************************************************************************)
EXTENDS Integers, Sequences, FiniteSets, TLC

(***************************************************************************)
(* Bounds of the model.                                                    *)
(***************************************************************************)
\* At most MaxHeld keys are tracked (active_modifiers plus active_keys) at once.
MaxHeld == 3

\* The recorded chords hold at most MaxChord modifiers.
MaxChord == 2

(***************************************************************************)
(* evdev constants.  The key universe of the model is a part of evdev's.   *)
(***************************************************************************)
EV_SYN == 0
EV_KEY == 1
EV_MSC == 4

KEY_LEFTCTRL == 29
KEY_LEFTSHIFT == 42
KEY_LEFTALT == 56
KEY_CAPSLOCK == 58
KEY_I == 23
KEY_A == 30
KEY_J == 36
KEY_K == 37
KEY_DOWN == 108

\* class KeyState(IntEnum)
up == 0
down == 1
hold == 2

KeyStates == {up, down, hold}

\* MagicKeyboard.MODIFIER_KEY_CODES, restricted to the key universe
MODIFIER_KEY_CODES == {KEY_LEFTCTRL, KEY_LEFTSHIFT, KEY_LEFTALT, KEY_CAPSLOCK}

\* the non-modifier keys of the physical keyboard
PlainKeys == {KEY_I, KEY_J, KEY_K}

is_modifier(keycode) == keycode \in MODIFIER_KEY_CODES

(***************************************************************************)
(* Strings are sequences of characters; None is Python's None.  A value is *)
(* truthy when it is neither None nor the empty string.                    *)
(***************************************************************************)
None == <<"None">>

Truthy(s) == s # None /\ s # <<>>

\* re.search(pattern, string) for the literal patterns of the model:
\* the pattern occurs somewhere in the string
re_search(pattern, string) ==
    \E i \in 0..(Len(string) - Len(pattern)) :
        SubSeq(string, i + 1, i + Len(pattern)) = pattern

firefox == <<"f", "o", "x">>
term == <<"t", "e", "r", "m">>
xterm == <<"x">> \o term
vim == <<"v", "i", "m">>

\* Window(class_, title)
Window(class_, title) == [class_ |-> class_, title |-> title]

\* the windows a focus event can report
Windows == {Window(<<>>, <<>>), Window(firefox, vim)}

\* a dict of patterns; None stands for a missing key, NoPatterns is {}
Patterns(class, title) == [class |-> class, title |-> title]

NoPatterns == Patterns(None, None)

KeyMapping(sm, sk, dm, dk, m, mo, mn, mno) ==
    [src_modifiers |-> sm, src_key |-> sk, dst_modifiers |-> dm, dst_key |-> dk,
     match |-> m, match_or |-> mo, match_not |-> mn, match_not_or |-> mno]

\* the rules of the binding, in declaration order:
\*   ctrl+i -> ctrl+a  (match_not: {class: fox}),  alt+j -> down,
\*   ctrl+shift+j -> ctrl+shift+down,  alt+i -> shift+a
key_mappings ==
    << KeyMapping({KEY_LEFTCTRL}, KEY_I, {KEY_LEFTCTRL}, KEY_A,
                  NoPatterns, NoPatterns, Patterns(firefox, None), NoPatterns),
       KeyMapping({KEY_LEFTALT}, KEY_J, {}, KEY_DOWN,
                  NoPatterns, NoPatterns, NoPatterns, NoPatterns),
       KeyMapping({KEY_LEFTCTRL, KEY_LEFTSHIFT}, KEY_J,
                  {KEY_LEFTCTRL, KEY_LEFTSHIFT}, KEY_DOWN,
                  NoPatterns, NoPatterns, NoPatterns, NoPatterns),
       KeyMapping({KEY_LEFTALT}, KEY_I, {KEY_LEFTSHIFT}, KEY_A,
                  NoPatterns, NoPatterns, NoPatterns, NoPatterns) >>

(***************************************************************************)
(* KeyMapping.is_match                                                     *)
(***************************************************************************)
\* the result of one pattern: c (or t) is None when not c_set, else the
\* search result, inverted for the "not" kinds
pattern_result(pattern, string, neg) ==
    IF neg THEN ~re_search(pattern, string) ELSE re_search(pattern, string)

\* the combination of c and t for the kind m, "or"-kind when disj
combine(c_set, c, t_set, t, disj, res) ==
    IF ~c_set /\ ~t_set THEN res
    ELSE IF disj THEN (IF c_set THEN c ELSE FALSE) \/ (IF t_set THEN t ELSE FALSE)
    ELSE (IF c_set THEN c ELSE TRUE) /\ (IF t_set THEN t ELSE TRUE)

\* one pass of the loop body for the dict `patterns` of the kind m, which is
\* "not"-kind when neg and "or"-kind when disj; res is the chord's result
predicate_result(patterns, neg, disj, window, res) ==
    combine(Truthy(patterns.class) /\ Truthy(window.class_),
            pattern_result(patterns.class, window.class_, neg),
            Truthy(patterns.title) /\ Truthy(window.title),
            pattern_result(patterns.title, window.title, neg),
            disj, res)

\* the loop over match, match_or, match_not, match_not_or: the first dict
\* that is not empty decides
window_match(rule, window, res) ==
    IF rule.match # NoPatterns
    THEN predicate_result(rule.match, FALSE, FALSE, window, res)
    ELSE IF rule.match_or # NoPatterns
    THEN predicate_result(rule.match_or, FALSE, TRUE, window, res)
    ELSE IF rule.match_not # NoPatterns
    THEN predicate_result(rule.match_not, TRUE, FALSE, window, res)
    ELSE IF rule.match_not_or # NoPatterns
    THEN predicate_result(rule.match_not_or, TRUE, TRUE, window, res)
    ELSE res

\* is_match without the comparison of the chord
is_match_any_chord(rule, modifiers, key, window) ==
    IF ~(Truthy(window.title) \/ Truthy(window.class_)) THEN TRUE
    ELSE window_match(rule, window, TRUE)

is_match(rule, modifiers, key, window) ==
    IF ~(rule.src_modifiers = modifiers /\ rule.src_key = key) THEN FALSE
    ELSE IF ~(Truthy(window.title) \/ Truthy(window.class_)) THEN TRUE
    ELSE window_match(rule, window, TRUE)

\* the last of the rule indexes `hits` in declaration order, 0 for None
last_rule(hits) == IF hits = {} THEN 0 ELSE CHOOSE i \in hits : \A j \in hits : j <= i

\* the first of the rule indexes `hits` in declaration order, 0 for None
first_rule(hits) == IF hits = {} THEN 0 ELSE CHOOSE i \in hits : \A j \in hits : i <= j

\* the loop of KeyboardMapping.match over the list `rules`: the index of the
\* first matching rule, 0 for None
match_rules(rules, src_modifiers, src_key, window) ==
    first_rule({i \in 1..Len(rules) : is_match(rules[i], src_modifiers, src_key, window)})

\* KeyboardMapping.match: the index of the first matching rule, 0 for None
match(src_modifiers, src_key, window) ==
    match_rules(key_mappings, src_modifiers, src_key, window)

(***************************************************************************)
(* Events and the dicts of the engine                                      *)
(***************************************************************************)
Event(type, code, value) == [type |-> type, code |-> code, value |-> value]

Key(keycode, keystate) == Event(EV_KEY, keycode, keystate)

\* what output_device.syn() writes
SynEvent == Event(EV_SYN, 0, 0)

\* no input event: the latest step was not handle_input_event
NoEvent == Event(-1, 0, 0)

\* the events the physical keyboard can deliver
KeyEvents == {Key(k, v) : k \in MODIFIER_KEY_CODES \cup PlainKeys, v \in KeyStates}

OtherEvents == {SynEvent, Event(EV_MSC, 4, KEY_I)}

\* ActiveKeyInfo: send_out is the only field the engine ever reads
ActiveKeyInfo(key, send_out) == [key |-> key, send_out |-> send_out]

\* a dict keeps insertion order: keys of the dict, as a set and in order
dict_keys(d) == {d[i].key : i \in 1..Len(d)}

dict_list(d) == [i \in 1..Len(d) |-> d[i].key]

\* d[key] = info: an existing key keeps its place, a new one goes last
dict_set(d, info) ==
    IF info.key \in dict_keys(d)
    THEN [i \in 1..Len(d) |-> IF d[i].key = info.key THEN info ELSE d[i]]
    ELSE Append(d, info)

\* d.pop(key, None)
dict_pop(d, key) == SelectSeq(d, LAMBDA e : e.key # key)

\* the slot of a small int in CPython's hash table of a set of up to 4 items
set_slot(k) == k % 8

\* list(s) of a set of ints: the order of iteration, by slot
set_list(S) ==
    [i \in 1..Cardinality(S) |->
        CHOOSE k \in S : Cardinality({x \in S : set_slot(x) < set_slot(k)}) = i - 1]

Reverse(seq) == [i \in 1..Len(seq) |-> seq[Len(seq) + 1 - i]]

\* KeyboardMapping.send_keys
send_keys(keycodes, keystate) == [i \in 1..Len(keycodes) |-> Key(keycodes[i], keystate)]

(***************************************************************************)
(* KeyboardMapping.try_match_key                                           *)
(***************************************************************************)
\* a variant that leaves the sent modifiers pressed
up_sent_modifiers_none(am, dst_modifiers) == <<>>

\* first loop of the PRE_MATCH_PRESSED_MODIFIER branch: up_key for every
\* modifier that was sent out and is not a destination modifier
up_sent_modifiers(am, dst_modifiers) ==
    send_keys(dict_list(SelectSeq(am, LAMBDA e :
        e.send_out /\ ~(\E i \in 1..Len(dst_modifiers) : dst_modifiers[i] = e.key))), up)

\* a variant that presses every destination modifier, sent out or not
down_dst_modifiers_all(am, dst_modifiers) == send_keys(dst_modifiers, down)

\* second loop: down_key for every destination modifier not yet sent out
down_dst_modifiers(am, dst_modifiers) ==
    send_keys(SelectSeq(dst_modifiers, LAMBDA k :
        ~(\E i \in 1..Len(am) : am[i].key = k /\ am[i].send_out)), down)

\* a variant that presses the destination modifiers before it releases the
\* sent modifiers
reconcile_modifiers_downs_first(old_state, am, dst_modifiers) ==
    IF old_state = "pre_match_pressed_modifier"
    THEN down_dst_modifiers(am, dst_modifiers) \o up_sent_modifiers(am, dst_modifiers)
    ELSE send_keys(dst_modifiers, down)

\* the modifier events written before the destination key
reconcile_modifiers(old_state, am, dst_modifiers) ==
    IF old_state = "pre_match_pressed_modifier"
    THEN up_sent_modifiers(am, dst_modifiers) \o down_dst_modifiers(am, dst_modifiers)
    ELSE send_keys(dst_modifiers, down)

\* a variant that forwards the tap as one HOLD of the destination key
tap_dst_key_hold(dst_key) == <<Key(dst_key, hold)>>

\* a variant that leaves the destination key pressed
tap_dst_key_down_only(dst_key) == <<Key(dst_key, down)>>

\* down_key(dst_key); up_key(dst_key)
tap_dst_key(dst_key) == <<Key(dst_key, down), Key(dst_key, up)>>

\* a variant that never releases the destination modifiers
up_dst_modifiers_none(dst_modifiers) == <<>>

\* a variant that releases the destination modifiers last pressed first
up_dst_modifiers_reversed(dst_modifiers) == send_keys(Reverse(dst_modifiers), up)

\* send_keys(list(dst_modifiers), KeyState.up)
up_dst_modifiers(dst_modifiers) == send_keys(dst_modifiers, up)

\* the engine after a handler: state, the two dicts and the events written
Result(s, am, ak, writes) ==
    [state |-> s, active_modifiers |-> am, active_keys |-> ak, writes |-> writes]

\* a variant that also syncs after the tap of the destination key
resolution_writes_syn_twice(old_state, am, dst_modifiers, dst_key) ==
    reconcile_modifiers(old_state, am, dst_modifiers)
    \o tap_dst_key(dst_key)
    \o <<SynEvent>>
    \o up_dst_modifiers(dst_modifiers)
    \o <<SynEvent>>

\* the events of one chord resolution
resolution_writes(old_state, am, dst_modifiers, dst_key) ==
    reconcile_modifiers(old_state, am, dst_modifiers)
    \o tap_dst_key(dst_key)
    \o up_dst_modifiers(dst_modifiers)
    \o <<SynEvent>>

\* try_match_key once match has returned matched_key_mapping (0 for None)
resolve(old_state, am, ak, keycode, matched_key_mapping) ==
    IF matched_key_mapping = 0
    THEN Result("unmatched", am, ak,
                resolution_writes(old_state, am, dict_list(am), keycode))
    ELSE Result("matched", am, ak,
                resolution_writes(old_state, am,
                                  set_list(key_mappings[matched_key_mapping].dst_modifiers),
                                  key_mappings[matched_key_mapping].dst_key))

try_match_key(old_state, am, ak, keycode, window) ==
    resolve(old_state, am, ak, keycode, match(dict_keys(am), keycode, window))

(***************************************************************************)
(* The handlers of the four groups of states                               *)
(***************************************************************************)
\* a variant that writes the key and forgets the sync
forward_key_no_syn(keycode, keystate) == <<Key(keycode, keystate)>>

\* send_key(keycode, keystate); output_device.syn()
forward_key(keycode, keystate) == <<Key(keycode, keystate), SynEvent>>

\* a variant that forwards the unexpected key
unexpected_key_forwarded(s, am, ak, keycode, keystate) ==
    Result(s, am, ak, forward_key(keycode, keystate))

\* logger.warning('... unexpected key ...'): the event is dropped
unexpected_key(s, am, ak, keycode, keystate) == Result(s, am, ak, <<>>)

handle_pre_match_init(s, am, ak, keycode, keystate, is_mod) ==
    IF ~is_mod
    THEN IF keystate \in {down, hold}
         THEN Result("pre_match_pressed_key", am, ak \cup {keycode},
                     forward_key(keycode, keystate))
         ELSE unexpected_key(s, am, ak, keycode, keystate)
    ELSE IF keystate \in {down, hold}
         THEN Result("pre_match_pressed_modifier",
                     dict_set(am, ActiveKeyInfo(keycode, TRUE)), ak,
                     forward_key(keycode, keystate))
         ELSE unexpected_key(s, am, ak, keycode, keystate)

handle_pre_match_pressed_key(s, am, ak, keycode, keystate, is_mod) ==
    IF is_mod THEN unexpected_key(s, am, ak, keycode, keystate)
    ELSE IF keystate \in {down, hold}
    THEN Result(s, am, ak \cup {keycode}, forward_key(keycode, keystate))
    ELSE Result(IF ak \ {keycode} = {} THEN "PRE_MATCH_INIT" ELSE s,
                am, ak \ {keycode}, forward_key(keycode, keystate))

handle_pre_match_pressed_modifier(s, am, ak, keycode, keystate, is_mod, window) ==
    IF is_mod
    THEN IF keystate \in {down, hold}
         THEN Result(s, dict_set(am, ActiveKeyInfo(keycode, TRUE)), ak,
                     forward_key(keycode, keystate))
         ELSE Result(IF dict_pop(am, keycode) = <<>> THEN "PRE_MATCH_INIT" ELSE s,
                     dict_pop(am, keycode), ak, forward_key(keycode, keystate))
    ELSE IF keystate \in {down, hold}
    THEN try_match_key(s, am, ak \cup {keycode}, keycode, window)
    ELSE unexpected_key(s, am, ak, keycode, keystate)

\* a variant that answers the release of the key with its UP
matched_key_up_written(s, am, ak, keycode) ==
    Result(s, am, ak \ {keycode}, forward_key(keycode, up))

\* a variant that keeps the released key tracked
matched_key_up_kept(s, am, ak, keycode) == Result(s, am, ak, <<>>)

\* the UP of a key that is not a modifier: self._active_keys.pop(keycode, None)
matched_key_up(s, am, ak, keycode) == Result(s, am, ak \ {keycode}, <<>>)

\* a variant that stays in MATCHED or UNMATCHED
back_to_init_never(r) == r

\* the end of handle_matched_or_unmated: back to PRE_MATCH_INIT when no
\* modifier and no key is tracked any more
back_to_init(r) ==
    IF r.active_modifiers = <<>> /\ r.active_keys = {}
    THEN [r EXCEPT !.state = "PRE_MATCH_INIT"]
    ELSE r

handle_matched_or_unmated(s, am, ak, keycode, keystate, is_mod, window) ==
    back_to_init(
        IF is_mod
        THEN IF keystate \in {down, hold}
             THEN Result(s, dict_set(am, ActiveKeyInfo(keycode, FALSE)), ak, <<>>)
             ELSE Result(s, dict_pop(am, keycode), ak, <<>>)
        ELSE IF keystate \in {down, hold}
             THEN try_match_key(s, am, ak \cup {keycode}, keycode, window)
             ELSE matched_key_up(s, am, ak, keycode))

\* a variant that forgets the sync after the event
write_event_no_syn(event) == <<event>>

\* write_event(event); syn() for an event that is not a key event
write_event(event) == <<event, SynEvent>>

\* the dispatch of a key event on the state
dispatch_key(s, am, ak, window, keycode, keystate, is_mod) ==
    IF s = "PRE_MATCH_INIT"
    THEN handle_pre_match_init(s, am, ak, keycode, keystate, is_mod)
    ELSE IF s = "pre_match_pressed_key"
    THEN handle_pre_match_pressed_key(s, am, ak, keycode, keystate, is_mod)
    ELSE IF s = "pre_match_pressed_modifier"
    THEN handle_pre_match_pressed_modifier(s, am, ak, keycode, keystate, is_mod, window)
    ELSE handle_matched_or_unmated(s, am, ak, keycode, keystate, is_mod, window)

\* KeyboardMapping.handle_input_event, as a function of the engine before it
dispatch(s, am, ak, window, event) ==
    IF event.type # EV_KEY THEN Result(s, am, ak, write_event(event))
    ELSE dispatch_key(s, am, ak, window, event.code, event.value, is_modifier(event.code))

(***************************************************************************)
(* The input sequences whose output is recorded from construction on       *)
(***************************************************************************)
\* the orders in which the keys of S can be pressed
Perms(S) ==
    {p \in [1..Cardinality(S) -> S] : \A i, j \in 1..Cardinality(S) : p[i] = p[j] => i = j}

\* press the modifiers in the order `downs`, tap `key`, release them in the order `ups`
Chord(downs, key, ups) ==
    send_keys(downs, down) \o <<Key(key, down), Key(key, up)>> \o send_keys(ups, up)

\* the rules that keep their modifiers and are the first rule of their chord
SameModifierRules ==
    {i \in 1..Len(key_mappings) :
        /\ key_mappings[i].dst_modifiers = key_mappings[i].src_modifiers
        /\ match(key_mappings[i].src_modifiers, key_mappings[i].src_key,
                 Window(<<>>, <<>>)) = i}

RuleChords ==
    UNION {{Chord(pd, key_mappings[i].src_key, pu) :
                pd \in Perms(key_mappings[i].src_modifiers),
                pu \in Perms(key_mappings[i].src_modifiers)} :
           i \in SameModifierRules}

\* hold alt and tap j twice
DoubleTap ==
    <<Key(KEY_LEFTALT, down), Key(KEY_J, down), Key(KEY_J, up),
      Key(KEY_J, down), Key(KEY_J, up), Key(KEY_LEFTALT, up)>>

\* the sets of 1..MaxChord modifiers
ChordModifiers ==
    {M \in SUBSET MODIFIER_KEY_CODES : Cardinality(M) \in 1..MaxChord}

\* chords no rule matches under `window`, released in reverse order of pressing
UnmatchedChords(window) ==
    UNION {{Chord(pd, k, Reverse(pd)) : pd \in Perms(M)} :
           <<M, k>> \in {c \in ChordModifiers \X PlainKeys : match(c[1], c[2], window) = 0}}

Scenarios(window) == RuleChords \cup {DoubleTap} \cup UnmatchedChords(window)

IsPrefix(p, seq) == Len(p) <= Len(seq) /\ SubSeq(seq, 1, Len(p)) = p

\* the trace of a run: on while the inputs since construction are the start
\* of a scenario and the window has not changed since the first input
Trace(on, inp, out) == [on |-> on, inp |-> inp, out |-> out]

TraceOff == Trace(FALSE, <<>>, <<>>)

KeyWrites(writes) == SelectSeq(writes, LAMBDA w : w.type = EV_KEY)

(***************************************************************************)
(* Calls of KeyboardMapping.match on lists of rules                        *)
(***************************************************************************)
\* the lists of rules of a call hold at most MaxRules rules
MaxRules == 3

\* the values of a pattern of a rule: missing, or a literal
PatternStrings == {None, firefox, term, vim}

\* the values of the class and of the title of a window
WindowStrings == {<<>>, firefox, xterm, vim}

AllWindows == {Window(c, t) : c \in WindowStrings, t \in WindowStrings}

\* the dicts with at least one pattern
SomePatterns == {Patterns(c, t) : c \in PatternStrings, t \in PatternStrings} \ {NoPatterns}

\* the rule ctrl+i -> a with the dict `patterns` as its predicate of the kind
\* m (1 match, 2 match_or, 3 match_not, 4 match_not_or)
PredicateRule(m, patterns) ==
    KeyMapping({KEY_LEFTCTRL}, KEY_I, {}, KEY_A,
               IF m = 1 THEN patterns ELSE NoPatterns,
               IF m = 2 THEN patterns ELSE NoPatterns,
               IF m = 3 THEN patterns ELSE NoPatterns,
               IF m = 4 THEN patterns ELSE NoPatterns)

\* every rule for ctrl+i: without a predicate, or with one kind of predicate
PredicateRules ==
    {PredicateRule(1, NoPatterns)}
    \cup {PredicateRule(m, patterns) : m \in 1..4, patterns \in SomePatterns}

\* the rules the longer lists are made of: two chords, four predicates
ListRules ==
    {PredicateRule(1, NoPatterns),
     PredicateRule(1, Patterns(firefox, None)),
     PredicateRule(3, Patterns(firefox, None)),
     PredicateRule(2, Patterns(term, vim)),
     KeyMapping({KEY_LEFTALT}, KEY_J, {}, KEY_DOWN,
                NoPatterns, NoPatterns, NoPatterns, NoPatterns)}

RuleLists ==
    {<<rule>> : rule \in PredicateRules}
    \cup UNION {[1..n -> ListRules] : n \in 2..MaxRules}

\* the chords a call asks for
CallModifiers == {{KEY_LEFTCTRL}, {KEY_LEFTALT}, {KEY_LEFTCTRL, KEY_LEFTALT}}

CallKeys == {KEY_I, KEY_J}

\* a call: its arguments, the result of is_match for each rule (<<>> before
\* the calls) and the result of match (-1 before the call)
Call(rules, modifiers, key, window, hits, matched) ==
    [rules |-> rules, modifiers |-> modifiers, key |-> key, window |-> window,
     hits |-> hits, matched |-> matched]

NoCall == Call(<<>>, {}, 0, Window(<<>>, <<>>), <<>>, -1)

(***************************************************************************)
(* The key capabilities of the virtual device that grab makes              *)
(***************************************************************************)
\* the key codes a keyboard can have
KeyCodes == MODIFIER_KEY_CODES \cup PlainKeys \cup {KEY_A, KEY_DOWN}

\* grab, the loop over key_mappings: the key codes the rules refer to
rule_key_codes(rules) ==
    UNION {rules[i].src_modifiers \cup {rules[i].src_key}
              \cup rules[i].dst_modifiers \cup {rules[i].dst_key} : i \in DOMAIN rules}

\* grab: the local caps_ev_key, stored in the local caps[EV_KEY]
caps_ev_key(capabilities, rules) == capabilities \cup rule_key_codes(rules)

\* UInput.from_device(device, name=...): the virtual device gets the key
\* capabilities of the device it is given
from_device(capabilities) == capabilities

\* grab: output_device is made from input_device; the local caps is not an
\* argument of the call
output_capabilities(capabilities, rules) == from_device(capabilities)

\* the key codes send_key is called with: those of the events the keyboard
\* delivers, and the dst_modifiers and dst_key of the rules
written_key_codes(capabilities, rules) ==
    capabilities
        \cup UNION {rules[i].dst_modifiers \cup {rules[i].dst_key} : i \in DOMAIN rules}

\* A keyboard and its virtual device: the key capabilities of the keyboard,
\* whether grab has run, the caps[EV_KEY] it computed, the key capabilities of
\* output_device, the key code of the latest write (0 for none) and whether
\* the kernel delivered it: it drops a key code the device is not capable of.
UInput(capabilities, grabbed, caps, output, written, delivered) ==
    [capabilities |-> capabilities, grabbed |-> grabbed, caps |-> caps,
     output |-> output, written |-> written, delivered |-> delivered]

NoUInput == UInput({}, FALSE, {}, {}, 0, FALSE)

(***************************************************************************)
(* State                                                                   *)
(***************************************************************************)
VARIABLES
    state,              \* KeyboardMapping.state
    active_modifiers,   \* KeyboardMapping._active_modifiers, in insertion order
    active_keys,        \* the keys of KeyboardMapping._active_keys
    focused_window,     \* SwayClient.focused_window
    last_event,         \* the input event the latest step handled, or NoEvent
    batch,              \* the events the latest step wrote to output_device
    old,                \* the engine and the window before the latest step
    vdown,              \* keys with a DOWN written and no UP written after it
    virtual,            \* keys whose last written event is DOWN or HOLD, now and before
    trace,              \* the inputs and the events written since construction
    call,               \* the arguments and results of a call of match, or NoCall
    uinput,             \* the capabilities of a keyboard and of its virtual device
    physical,           \* the keys held down on a keyboard with a well-formed stream
    bindings,           \* MagicKeyboard.keyboard_mappings: the KeyboardMapping objects
    keyboards,          \* the kernel's side of each binding's physical keyboard
    supervisor,         \* MagicKeyboard: the event loop and the shutdown retries
    op                  \* the latest step of the supervisor, a pump or the kernel

vars == <<state, active_modifiers, active_keys, focused_window, last_event, batch,
          old, vdown, virtual, trace, call, uinput, physical, bindings, keyboards, supervisor,
          op>>

\* the variables of the engine under test
engine_vars == <<state, active_modifiers, active_keys, focused_window, last_event,
                 batch, old, vdown, virtual, trace>>

\* the variables of the bindings and their supervisor
life_vars == <<bindings, keyboards, supervisor, op>>

\* no binding is constructed
NoBindings ==
    /\ bindings = <<>>
    /\ keyboards = <<>>
    /\ supervisor = <<>>
    /\ op = <<>>

Engine(s, am, ak, window) ==
    [state |-> s, active_modifiers |-> am, active_keys |-> ak, window |-> window]

\* the places of the DOWNs and UPs of key k among `writes`
key_writes_at(writes, k) ==
    {i \in 1..Len(writes) : /\ writes[i].type = EV_KEY
                            /\ writes[i].code = k
                            /\ writes[i].value \in {up, down}}

\* the last of the places `at`
last_place(at) == CHOOSE i \in at : \A j \in at : j <= i

\* the virtual device's pending DOWNs after the events of `writes`: the keys
\* whose last DOWN or UP among them is a DOWN, and the keys pending before
\* that they do not mention
after_writes(held, writes) ==
    {k \in held : key_writes_at(writes, k) = {}}
    \cup {writes[i].code : i \in {j \in 1..Len(writes) :
              /\ writes[j].type = EV_KEY
              /\ writes[j].value = down
              /\ last_place(key_writes_at(writes, writes[j].code)) = j}}

\* the places of the events of key k among `writes`
key_events_at(writes, k) ==
    {i \in 1..Len(writes) : writes[i].type = EV_KEY /\ writes[i].code = k}

\* the keys that are down on the virtual device after the events of `writes`:
\* the keys whose last event among them is a DOWN or a HOLD, and the keys down
\* before that they do not mention
pressed_after(pressed, writes) ==
    {k \in pressed : key_events_at(writes, k) = {}}
    \cup {writes[i].code : i \in {j \in 1..Len(writes) :
              /\ writes[j].type = EV_KEY
              /\ writes[j].value \in {down, hold}
              /\ last_place(key_events_at(writes, writes[j].code)) = j}}

\* the keys down on the virtual device, and those down before the latest step
Virtual(now, before) == [down |-> now, before |-> before]

\* KeyboardMapping.__init__ and SwayClient.__init__
Init ==
    /\ state = "PRE_MATCH_INIT"
    /\ active_modifiers = <<>>
    /\ active_keys = {}
    /\ focused_window = Window(<<>>, <<>>)
    /\ last_event = NoEvent
    /\ batch = <<>>
    /\ old = Engine("PRE_MATCH_INIT", <<>>, {}, Window(<<>>, <<>>))
    /\ vdown = {}
    /\ virtual = Virtual({}, {})
    /\ trace = Trace(TRUE, <<>>, <<>>)
    /\ call = NoCall
    /\ uinput = NoUInput
    /\ physical = {}
    /\ NoBindings

\* the keys the engine tracks
Tracked == dict_keys(active_modifiers) \cup active_keys

\* the trace after `event` and its `writes`
trace_after(event, writes) ==
    IF trace.on /\ \E sc \in Scenarios(focused_window) :
                      IsPrefix(Append(trace.inp, event), sc)
    THEN Trace(TRUE, Append(trace.inp, event), trace.out \o writes)
    ELSE TraceOff

\* the engine takes the result r of handling `event`
take(r, event) ==
    /\ state' = r.state
    /\ active_modifiers' = r.active_modifiers
    /\ active_keys' = r.active_keys
    /\ batch' = r.writes
    /\ vdown' = after_writes(vdown, r.writes)
    /\ virtual' = Virtual(pressed_after(virtual.down, r.writes), virtual.down)
    /\ trace' = trace_after(event, r.writes)
    /\ last_event' = event
    /\ old' = Engine(state, active_modifiers, active_keys, focused_window)
    /\ UNCHANGED <<focused_window, call, uinput, life_vars>>

\* the keyboard delivers `event`: one run of handle_input_event
handle_input_event(event) ==
    /\ (event.type = EV_KEY /\ event.value # up /\ event.code \notin Tracked)
          => Cardinality(Tracked) < MaxHeld
    /\ take(dispatch(state, active_modifiers, active_keys, focused_window, event), event)
    /\ UNCHANGED physical

\* a variant that suspends after the assignment of class_: the title is the
\* one of the window before
set_focused_window_class_only(window, container) ==
    Window(container.class_, window.title)

\* SwayClient._subscribe on a focus event: focused_window.class_ and then
\* focused_window.title are assigned from the container of the event
set_focused_window(window, container) ==
    [[window EXCEPT !.class_ = container.class_] EXCEPT !.title = container.title]

\* SwayClient._subscribe: a focus event sets class_ and title with no await between
focus_event(window) ==
    /\ focused_window' = set_focused_window(focused_window, window)
    /\ last_event' = NoEvent
    /\ batch' = <<>>
    /\ old' = Engine(state, active_modifiers, active_keys, focused_window)
    /\ trace' = IF trace.on /\ trace.inp = <<>> THEN trace ELSE TraceOff
    /\ virtual' = Virtual(virtual.down, virtual.down)
    /\ UNCHANGED <<state, active_modifiers, active_keys, vdown, call, uinput, physical,
                   life_vars>>

Next ==
    \/ \E event \in KeyEvents \cup OtherEvents : handle_input_event(event)
    \/ \E window \in Windows : focus_event(window)

Spec == Init /\ [][Next]_vars

(***************************************************************************)
(* The specification of match and is_match as functions of their arguments *)
(***************************************************************************)
\* the engine is idle while the functions are called
MatchInit ==
    /\ \E rules \in RuleLists, modifiers \in CallModifiers, key \in CallKeys,
          window \in AllWindows :
            call = Call(rules, modifiers, key, window, <<>>, -1)
    /\ state = "PRE_MATCH_INIT"
    /\ active_modifiers = <<>>
    /\ active_keys = {}
    /\ focused_window = Window(<<>>, <<>>)
    /\ last_event = NoEvent
    /\ batch = <<>>
    /\ old = Engine("PRE_MATCH_INIT", <<>>, {}, Window(<<>>, <<>>))
    /\ vdown = {}
    /\ virtual = Virtual({}, {})
    /\ trace = TraceOff
    /\ uinput = NoUInput
    /\ physical = {}
    /\ NoBindings

\* KeyMapping.is_match is called on every rule of the list
call_is_match ==
    /\ call.hits = <<>>
    /\ call' = [call EXCEPT !.hits =
                    [i \in 1..Len(call.rules) |->
                        is_match(call.rules[i], call.modifiers, call.key, call.window)]]
    /\ UNCHANGED <<engine_vars, uinput, physical, life_vars>>

\* KeyboardMapping.match is called with the window as the focused window
call_match ==
    /\ call.matched = -1
    /\ call' = [call EXCEPT !.matched =
                    match_rules(call.rules, call.modifiers, call.key, call.window)]
    /\ UNCHANGED <<engine_vars, uinput, physical, life_vars>>

MatchNext == call_is_match \/ call_match

MatchSpec == MatchInit /\ [][MatchNext]_vars

(***************************************************************************)
(* Properties                                                              *)
(***************************************************************************)
EmptyWindow == Window(<<>>, <<>>)

\* the trace holds the whole scenario `sc`
Ran(sc) == trace.on /\ trace.inp = sc

\* C1: every DOWN written for a key is followed by an UP written for it
\* before the engine is next in PRE_MATCH_INIT: in PRE_MATCH_INIT no key has a
\* DOWN written that no later UP answers.
C1_DownsReleasedAtInit == state = "PRE_MATCH_INIT" => vdown = {}

\* the engine is back in PRE_MATCH_INIT after a chord that wrote DOWNs
C1_Witness ==
    /\ state = "PRE_MATCH_INIT"
    /\ old.state \in {"matched", "unmatched"}
    /\ last_event.type = EV_KEY

C3_AltReleasedLast ==
    Ran(DoubleTap)
    => KeyWrites(trace.out) =
         <<Key(KEY_LEFTALT, down), Key(KEY_DOWN, down), Key(KEY_DOWN, up),
           Key(KEY_DOWN, down), Key(KEY_DOWN, up), Key(KEY_LEFTALT, up)>>

\* C3 as amended: the run writes alt DOWN, alt UP, down DOWN, down UP, down
\* DOWN, down UP; alt UP is written when the first j DOWN is resolved, before
\* both taps, and the release of the physical alt writes nothing.
C3_AltReleasedFirst ==
    /\ Ran(SubSeq(DoubleTap, 1, 2))
       => KeyWrites(trace.out) =
            <<Key(KEY_LEFTALT, down), Key(KEY_LEFTALT, up),
              Key(KEY_DOWN, down), Key(KEY_DOWN, up)>>
    /\ Ran(DoubleTap)
       => /\ KeyWrites(trace.out) =
               <<Key(KEY_LEFTALT, down), Key(KEY_LEFTALT, up), Key(KEY_DOWN, down),
                 Key(KEY_DOWN, up), Key(KEY_DOWN, down), Key(KEY_DOWN, up)>>
          /\ batch = <<>>

C3_Witness == Ran(DoubleTap) /\ state = "PRE_MATCH_INIT"

\* C4 as stated: when no rule matches the chord, the key events written are
\* the input sequence, the modifiers' UPs in reverse order of pressing.
C4_UnmatchedIsIdentity ==
    (trace.on /\ trace.inp \in UnmatchedChords(focused_window))
    => KeyWrites(trace.out) = trace.inp

\* C4 as amended: the modifiers' UPs are written in the order of pressing
\* (m1 UP, ..., mn UP); with one modifier that is the input sequence.
C4_UnmatchedReleasedInPressOrder ==
    trace.on
    => \A M \in ChordModifiers : \A k \in PlainKeys : \A pd \in Perms(M) :
           (Ran(Chord(pd, k, Reverse(pd))) /\ match(M, k, focused_window) = 0)
           => /\ KeyWrites(trace.out) = Chord(pd, k, pd)
              /\ Cardinality(M) = 1 => KeyWrites(trace.out) = trace.inp

\* an unmatched chord of two modifiers has been played
C4_Witness ==
    /\ trace.on
    /\ trace.inp \in UnmatchedChords(focused_window)
    /\ Len(trace.inp) = 6
    /\ state = "PRE_MATCH_INIT"

\* the latest step handled a key event
KeyStep == last_event.type = EV_KEY

\* the latest step handled a key event of a tracked key that is no modifier
TrackedKeyStep ==
    /\ KeyStep
    /\ ~is_modifier(last_event.code)
    /\ last_event.code \in old.active_keys

\* the rule that matches the key of the latest step with the modifiers and
\* the window before it, 0 for none
RuleBefore == match(dict_keys(old.active_modifiers), last_event.code, old.window)

\* the destination keys of the rules whose src_key is k
DstKeys(k) ==
    {key_mappings[i].dst_key : i \in {j \in 1..Len(key_mappings) : key_mappings[j].src_key = k}}

\* every key event of `writes` satisfies P
AllKeyWrites(writes, P(_)) ==
    \A i \in 1..Len(writes) : writes[i].type = EV_KEY => P(writes[i])

\* the engine's state and dicts are as before the latest step
EngineUnchanged ==
    /\ state = old.state
    /\ active_modifiers = old.active_modifiers
    /\ active_keys = old.active_keys

HoldWhileMatched == TrackedKeyStep /\ old.state = "matched" /\ last_event.value = hold

\* C5 as stated: while MATCHED, a HOLD of the physical trigger key writes
\* HOLD events of the rule's dst_key, no DOWN or UP and no event of the
\* physical key.
C5_HoldWritesHolds ==
    HoldWhileMatched
    => /\ KeyWrites(batch) # <<>>
       /\ AllKeyWrites(batch, LAMBDA w : w.value = hold /\ w.code \in DstKeys(last_event.code))

\* the tap of the rule with index i from MATCHED: its modifiers' DOWNs,
\* dst_key DOWN and UP, its modifiers' UPs, one sync
RuleTap(i) ==
    send_keys(set_list(key_mappings[i].dst_modifiers), down)
    \o <<Key(key_mappings[i].dst_key, down), Key(key_mappings[i].dst_key, up)>>
    \o send_keys(set_list(key_mappings[i].dst_modifiers), up)
    \o <<SynEvent>>

\* C5 as amended: while MATCHED, a HOLD of the physical trigger key is
\* resolved again like a DOWN: no HOLD event is written, and when the tracked
\* modifiers and the key still match a rule the engine stays MATCHED and
\* writes the DOWNs of the rule's dst_modifiers, dst_key DOWN, dst_key UP,
\* the UPs of the dst_modifiers and one sync, and nothing else.
C5_HoldTapsDstKey ==
    HoldWhileMatched
    => /\ AllKeyWrites(batch, LAMBDA w : w.value # hold)
       /\ RuleBefore # 0 => (state = "matched" /\ batch = RuleTap(RuleBefore))

C5_Witness == HoldWhileMatched /\ RuleBefore # 0 /\ state = "matched"

TriggerUp ==
    TrackedKeyStep /\ old.state \in {"matched", "unmatched"} /\ last_event.value = up

\* C6 as stated: in MATCHED or UNMATCHED the UP of the physical trigger key K
\* writes (dst_key, UP) if MATCHED or (K, UP) if UNMATCHED, followed by UPs
\* of modifiers.
C6_TriggerUpWritesUps ==
    TriggerUp
    => /\ KeyWrites(batch) # <<>>
       /\ KeyWrites(batch)[1].value = up
       /\ KeyWrites(batch)[1].code \in
              (IF old.state = "matched" THEN DstKeys(last_event.code)
                                        ELSE {last_event.code})
       /\ \A i \in 2..Len(KeyWrites(batch)) :
              KeyWrites(batch)[i].value = up /\ is_modifier(KeyWrites(batch)[i].code)

\* C6 as amended: in MATCHED or UNMATCHED the UP of the physical trigger key K
\* writes nothing: the UP of dst_key (or K) and the UPs of the destination
\* modifiers were written with the DOWN, when K DOWN was resolved, so in
\* MATCHED and UNMATCHED no written DOWN is pending.  K leaves active_keys and
\* the engine goes to PRE_MATCH_INIT iff no modifier and no key is tracked.
C6_TriggerUpWritesNothing ==
    /\ state \in {"matched", "unmatched"} => vdown = {}
    /\ TriggerUp
       => /\ batch = <<>>
          /\ active_keys = old.active_keys \ {last_event.code}
          /\ active_modifiers = old.active_modifiers
          /\ state = IF active_modifiers = <<>> /\ active_keys = {}
                     THEN "PRE_MATCH_INIT" ELSE old.state

C6_Witness == TriggerUp /\ old.state = "matched" /\ state = "PRE_MATCH_INIT"

\* C7: in every state an input event that is not a key event is written once,
\* unchanged, followed at once by one sync, and leaves the state,
\* active_modifiers and active_keys as they were.
C7_NonKeyPassedThrough ==
    (last_event # NoEvent /\ last_event.type # EV_KEY)
    => (batch = <<last_event, SynEvent>> /\ EngineUnchanged)

C7_Witness ==
    /\ last_event.type = EV_MSC
    /\ old.state = "matched"
    /\ old.active_keys # {}

\* the key k is no modifier and no rule's src_key
Unruled(k) ==
    ~is_modifier(k) /\ \A i \in 1..Len(key_mappings) : key_mappings[i].src_key # k

UnruledStep == KeyStep /\ Unruled(last_event.code)

\* C8 as stated: in every state a key event whose code is no modifier and no
\* rule's src_key is written once, as it is, followed by a sync, and no other
\* key event is written for it.
C8_UnruledKeyVerbatim == UnruledStep => batch = <<last_event, SynEvent>>

\* C8 as amended: such a key event is passed through verbatim in
\* PRE_MATCH_PRESSED_KEY, and in PRE_MATCH_INIT when it is DOWN or HOLD.  An
\* UP in the other cases writes nothing.  A DOWN or HOLD in
\* PRE_MATCH_PRESSED_MODIFIER, MATCHED or UNMATCHED is resolved as an unmatched
\* chord: code DOWN, code UP, then the UPs of the tracked modifiers and one
\* sync, after the DOWNs of the tracked modifiers when it comes in MATCHED or
\* UNMATCHED.
C8_UnruledKeyVerbatimBeforeChord ==
    UnruledStep
    => /\ (old.state = "pre_match_pressed_key"
            \/ (old.state = "PRE_MATCH_INIT" /\ last_event.value # up))
          => batch = <<last_event, SynEvent>>
       /\ (old.state # "pre_match_pressed_key" /\ last_event.value = up)
          => batch = <<>>
       /\ (old.state = "pre_match_pressed_modifier" /\ last_event.value # up)
          => (state = "unmatched" /\
              batch = <<Key(last_event.code, down), Key(last_event.code, up)>>
                      \o send_keys(dict_list(old.active_modifiers), up)
                      \o <<SynEvent>>)
       /\ (old.state \in {"matched", "unmatched"} /\ last_event.value # up)
          => (state = "unmatched" /\
              batch = send_keys(dict_list(old.active_modifiers), down)
                      \o <<Key(last_event.code, down), Key(last_event.code, up)>>
                      \o send_keys(dict_list(old.active_modifiers), up)
                      \o <<SynEvent>>)

\* an unruled key pressed with two modifiers held
C8_Witness ==
    /\ UnruledStep
    /\ old.state = "pre_match_pressed_modifier"
    /\ last_event.value = down
    /\ Len(old.active_modifiers) = 2

\* no rule of the binding names caps_lock
CapsLockUnreferenced ==
    \A i \in 1..Len(key_mappings) :
        KEY_CAPSLOCK \notin key_mappings[i].src_modifiers \cup key_mappings[i].dst_modifiers

\* C9: when no rule names caps_lock, a caps_lock event is passed through like
\* a plain key; in PRE_MATCH_PRESSED_KEY it is forwarded, not dropped.
C9_CapsLockForwarded ==
    (CapsLockUnreferenced /\ KeyStep /\ last_event.code = KEY_CAPSLOCK
     /\ old.state = "pre_match_pressed_key")
    => batch = <<last_event, SynEvent>>

\* the key event of the latest step was unexpected for the state before it
Unexpected ==
    /\ KeyStep
    /\ \/ old.state = "PRE_MATCH_INIT" /\ last_event.value = up
       \/ old.state = "pre_match_pressed_key" /\ is_modifier(last_event.code)
       \/ /\ old.state = "pre_match_pressed_modifier"
          /\ ~is_modifier(last_event.code)
          /\ last_event.value = up

\* C10: an unexpected key event (an UP in PRE_MATCH_INIT, a modifier event in
\* PRE_MATCH_PRESSED_KEY, the UP of a key that is no modifier in
\* PRE_MATCH_PRESSED_MODIFIER) is dropped: nothing is written, no key event
\* and no sync, and the state and both dicts are unchanged.
C10_UnexpectedDropped == Unexpected => (batch = <<>> /\ EngineUnchanged)

\* a modifier pressed while plain keys are held
C10_Witness ==
    /\ Unexpected
    /\ old.state = "pre_match_pressed_key"
    /\ last_event.value = down
    /\ active_keys # {}

(***************************************************************************)
(* The bindings: the handles of a KeyboardMapping, grab, ungrab, the pump  *)
(***************************************************************************)
\* A binding opens at most MaxHandles handles on its keyboard that are in use
\* at the same time.
MaxHandles == 3

Handles == 1..MaxHandles

\* the holder of the exclusive grab when it is another process
OtherProcess == -1

\* A KeyboardMapping: the engine, and input_device, output_device and
\* _async_task, 0 for None.  A handle is named by a number, a virtual device
\* and a pump task by the handle they were made from.  `tasks` are the pump
\* tasks of the binding that the event loop has not ended yet.
Binding(s, am, ak, input_device, output_device, async_task, tasks) ==
    [state |-> s, active_modifiers |-> am, active_keys |-> ak,
     input_device |-> input_device, output_device |-> output_device,
     async_task |-> async_task, tasks |-> tasks]

\* KeyboardMapping.__init__
NewBinding == Binding("PRE_MATCH_INIT", <<>>, {}, 0, 0, 0, {})

\* The kernel's side of a keyboard: whether it is plugged in, the handles
\* this process holds open on it, those of them whose device node has been
\* removed, and the holder of the exclusive grab (0 for nobody).
Keyboard(present, opened, gone, grabber) ==
    [present |-> present, opened |-> opened, gone |-> gone, grabber |-> grabber]

\* the binding and its keyboard after a call, with the value of ungrab()
Held(b, kb, ok) == [b |-> b, kb |-> kb, ok |-> ok]

\* InputDevice.close(): the kernel drops the grab of a handle that is closed
close_handle(kb, h) ==
    [kb EXCEPT !.opened = @ \ {h},
               !.gone = @ \ {h},
               !.grabber = IF @ = h THEN 0 ELSE @]

\* InputDevice.__del__: a handle that neither input_device nor a pump task
\* refers to any more is closed
finalize(b, kb, h) ==
    IF h \in kb.opened /\ h # b.input_device /\ h \notin b.tasks
    THEN close_handle(kb, h)
    ELSE kb

\* input_device.ungrab() raises OSError: the device is gone (ENODEV) or the
\* grab is not this handle's (EINVAL)
ungrab_raises(kb, h) == h \in kb.gone \/ kb.grabber # h

\* ungrab with the pump task left as it is
cancel_task_kept(b) == b

\* the end of ungrab: the pump task is cancelled and forgotten
cancel_task(b) == [b EXCEPT !.async_task = 0, !.tasks = @ \ {b.async_task}]

\* ungrab once the engine is in PRE_MATCH_INIT: the grab is released and the
\* handle closed, the virtual device closed, the task cancelled; the handle
\* the cancelled task read is closed when nothing refers to it
close_devices(b, kb) ==
    IF b.input_device # 0 /\ ungrab_raises(kb, b.input_device)
    THEN Held(b, kb, FALSE)
    ELSE Held(cancel_task([b EXCEPT !.input_device = 0, !.output_device = 0]),
              finalize(cancel_task([b EXCEPT !.input_device = 0, !.output_device = 0]),
                       close_handle(kb, b.input_device), b.async_task),
              TRUE)

\* ungrab without the test of the engine's state
ungrab_in_any_state(b, kb) == close_devices(b, kb)

\* KeyboardMapping.ungrab
ungrab(b, kb) ==
    IF b.state # "PRE_MATCH_INIT" THEN Held(b, kb, FALSE) ELSE close_devices(b, kb)

\* the handles and the names in use
used(b, kb) ==
    kb.opened \cup b.tasks \cup {b.input_device, b.output_device, b.async_task, kb.grabber}

\* the handle the next InputDevice(fn) opens
fresh(b, kb) ==
    CHOOSE h \in Handles \ used(b, kb) : \A g \in Handles \ used(b, kb) : h <= g

\* grab after `self.input_device = dev`: input_device.grab() raises OSError
\* when the keyboard is grabbed already, else the virtual device and the pump
\* task are made
grab_opened(b, kb, h) ==
    IF kb.grabber # 0
    THEN Held(b, kb, FALSE)
    ELSE Held([b EXCEPT !.output_device = h, !.async_task = h, !.tasks = @ \cup {h}],
              [kb EXCEPT !.grabber = h], TRUE)

\* grab when find_input_device has opened the handle h: it replaces
\* input_device, and the handle it replaces is closed if nothing reads it
grab_found(b, kb, h) ==
    grab_opened([b EXCEPT !.input_device = h],
                finalize([b EXCEPT !.input_device = h],
                         [kb EXCEPT !.opened = @ \cup {h}], b.input_device),
                h)

\* KeyboardMapping.grab
grab(b, kb) ==
    IF ~kb.present THEN ungrab(b, kb) ELSE grab_found(b, kb, fresh(b, kb))

\* grab can name the handle it opens
can_grab(b, kb) == kb.present => Handles \ used(b, kb) # {}

\* the binding takes the engine of the result r of handle_input_event
handled(b, r) ==
    [b EXCEPT !.state = r.state,
              !.active_modifiers = r.active_modifiers,
              !.active_keys = r.active_keys]

\* the binding when the first write of handle_input_event raises: the
\* assignments that come before the first write are done, the others not
write_raised(b, event, r) ==
    [b EXCEPT !.state = IF \/ b.state = "PRE_MATCH_INIT"
                          \/ (b.state = "pre_match_pressed_modifier"
                              /\ is_modifier(event.code))
                       THEN b.state ELSE r.state,
              !.active_modifiers = IF b.state = "PRE_MATCH_INIT"
                                   THEN b.active_modifiers ELSE r.active_modifiers,
              !.active_keys = r.active_keys]

\* the end of _handle_input_events for the task t: its finally clause closes
\* whatever input_device is and forgets it; the handle t read is closed when
\* nothing refers to it
pump_finally(b, kb, t) ==
    Held([b EXCEPT !.tasks = @ \ {t}, !.input_device = 0],
         finalize([b EXCEPT !.tasks = @ \ {t}, !.input_device = 0],
                  close_handle(kb, b.input_device), t),
         TRUE)

(***************************************************************************)
(* The supervisor (MagicKeyboard) and the steps of the event loop          *)
(***************************************************************************)
\* the key events a keyboard sends to its pump
LifeEvents ==
    {Key(KEY_LEFTCTRL, down), Key(KEY_LEFTCTRL, up), Key(KEY_I, down), Key(KEY_I, up)}

\* MagicKeyboard: the phase of the event loop ("constructed" before
\* run_forever, "running", "draining" while a retry of shutdown is scheduled,
\* "stopped" after evloop.stop()), the tried_count of the scheduled retry, the
\* number of rounds of ungrab() made by shutdown, and the bindings whose engine
\* has been in PRE_MATCH_INIT ever since the signal
Supervisor(phase, tried_count, rounds, steady) ==
    [phase |-> phase, tried_count |-> tried_count, rounds |-> rounds, steady |-> steady]

\* the latest step: its name, the binding it is about (0 for all), the
\* bindings ungrab() was called on and those it returned True for, whether a
\* write raised, and the bindings and keyboards before the step
Op(name, k, called, ok, raised, before, kbefore) ==
    [name |-> name, k |-> k, called |-> called, ok |-> ok, raised |-> raised,
     before |-> before, kbefore |-> kbefore]

Loop == {"running", "draining"}

\* the bindings whose engine is in PRE_MATCH_INIT
AtInit(bs) == {k \in DOMAIN bs : bs[k].state = "PRE_MATCH_INIT"}

\* the engines, the window and the calls are not part of these steps
LifeStep(name, k, called, ok, raised) ==
    /\ op' = Op(name, k, called, ok, raised, bindings, keyboards)
    /\ UNCHANGED <<engine_vars, call, uinput, physical>>

\* the calls of grab() on every binding, in run_forever and handle_udev_event
grab_all(name, phase) ==
    /\ \A k \in DOMAIN bindings : can_grab(bindings[k], keyboards[k])
    /\ bindings' = [k \in DOMAIN bindings |-> grab(bindings[k], keyboards[k]).b]
    /\ keyboards' = [k \in DOMAIN bindings |-> grab(bindings[k], keyboards[k]).kb]
    /\ supervisor' = [supervisor EXCEPT !.phase = phase]
    /\ LifeStep(name, 0,
                {k \in DOMAIN bindings : ~keyboards[k].present},
                {k \in DOMAIN bindings :
                    ~keyboards[k].present /\ grab(bindings[k], keyboards[k]).ok},
                FALSE)

\* MagicKeyboard.run_forever up to evloop.run_forever()
run_forever ==
    /\ supervisor.phase = "constructed"
    /\ grab_all("run_forever", "running")

\* MagicKeyboard.handle_udev_event for an event of the input subsystem
handle_udev_event ==
    /\ supervisor.phase \in Loop
    /\ grab_all("handle_udev_event", supervisor.phase)

\* shutdown gives up: `tried_count > 3`
budget_spent_late(tried_count) == tried_count > 4

budget_spent(tried_count) == tried_count > 3

\* all(...) over the generator: ungrab() is called on the bindings in order
\* up to the first one that returns False
reached(k) ==
    \A j \in DOMAIN bindings : j < k => ungrab(bindings[j], keyboards[j]).ok

\* MagicKeyboard.shutdown(tried_count); `steady` are the bindings whose engine
\* has been in PRE_MATCH_INIT since the signal
shutdown(name, tried_count, steady) ==
    IF budget_spent(tried_count)
    THEN /\ supervisor' = [supervisor EXCEPT !.phase = "stopped", !.steady = steady]
         /\ UNCHANGED <<bindings, keyboards>>
         /\ LifeStep(name, 0, {}, {}, FALSE)
    ELSE /\ bindings' = [k \in DOMAIN bindings |->
                            IF reached(k) THEN ungrab(bindings[k], keyboards[k]).b
                            ELSE bindings[k]]
         /\ keyboards' = [k \in DOMAIN bindings |->
                            IF reached(k) THEN ungrab(bindings[k], keyboards[k]).kb
                            ELSE keyboards[k]]
         /\ supervisor' =
                Supervisor(IF \A k \in DOMAIN bindings :
                                  ungrab(bindings[k], keyboards[k]).ok
                           THEN "stopped" ELSE "draining",
                           tried_count + 1,
                           supervisor.rounds + 1,
                           steady)
         /\ LifeStep(name, 0,
                     {k \in DOMAIN bindings : reached(k)},
                     {k \in DOMAIN bindings :
                         reached(k) /\ ungrab(bindings[k], keyboards[k]).ok},
                     FALSE)

\* MagicKeyboard.handle_SIGTERM: the first termination signal
handle_SIGTERM ==
    /\ supervisor.phase = "running"
    /\ shutdown("handle_SIGTERM", 0, AtInit(bindings))

\* the retry that shutdown scheduled with evloop.call_later
shutdown_retry ==
    /\ supervisor.phase = "draining"
    /\ shutdown("shutdown", supervisor.tried_count,
                supervisor.steady \cap AtInit(bindings))

\* the step takes the binding and the keyboard of `held` for the keyboard k
take_held(k, held) ==
    /\ bindings' = [bindings EXCEPT ![k] = held.b]
    /\ keyboards' = [keyboards EXCEPT ![k] = held.kb]
    /\ supervisor' = [supervisor EXCEPT !.steady = @ \ (IF held.b.state = "PRE_MATCH_INIT"
                                                         THEN {} ELSE {k})]

\* the binding after handle_input_event returned r for `event`, or raised
\* at its first write and ended the task t
pumped(b, kb, t, event, r, raises) ==
    IF raises THEN pump_finally(write_raised(b, event, r), kb, t)
    ELSE Held(handled(b, r), kb, TRUE)

\* one turn of the loop of _handle_input_events in the task t of the binding
\* k: handle_input_event(event); the writes raise or do not
pump_event(k, t, event, raises) ==
    /\ supervisor.phase \in Loop
    /\ t \in bindings[k].tasks
    /\ t \in keyboards[k].opened \ keyboards[k].gone
    /\ raises => dispatch(bindings[k].state, bindings[k].active_modifiers,
                          bindings[k].active_keys, focused_window, event).writes # <<>>
    /\ take_held(k, pumped(bindings[k], keyboards[k], t, event,
                           dispatch(bindings[k].state, bindings[k].active_modifiers,
                                    bindings[k].active_keys, focused_window, event),
                           raises))
    /\ LifeStep("pump_event", k, {}, {}, raises)

\* the read of the task t raises: its handle is closed or its device is gone
pump_ends(k, t) ==
    /\ supervisor.phase \in Loop
    /\ t \in bindings[k].tasks
    /\ t \in keyboards[k].gone \/ t \notin keyboards[k].opened
    /\ take_held(k, pump_finally(bindings[k], keyboards[k], t))
    /\ LifeStep("pump_ends", k, {}, {}, FALSE)

\* the kernel's side changes; the program is as it was
kernel_step(name, k, kb) ==
    /\ supervisor.phase # "stopped"
    /\ keyboards' = [keyboards EXCEPT ![k] = kb]
    /\ UNCHANGED <<bindings, supervisor>>
    /\ LifeStep(name, k, {}, {}, FALSE)

\* the keyboard k is unplugged: the open handles lose their device
unplug(k) ==
    /\ keyboards[k].present
    /\ kernel_step("unplug", k,
                   Keyboard(FALSE, keyboards[k].opened, keyboards[k].opened, 0))

\* the keyboard k is plugged in again, as a new device
replug(k) ==
    /\ ~keyboards[k].present
    /\ kernel_step("replug", k, [keyboards[k] EXCEPT !.present = TRUE])

\* another process grabs the keyboard k
other_grabs(k) ==
    /\ keyboards[k].present
    /\ keyboards[k].grabber = 0
    /\ kernel_step("other_grabs", k, [keyboards[k] EXCEPT !.grabber = OtherProcess])

\* the other process releases the keyboard k
other_ungrabs(k) ==
    /\ keyboards[k].grabber = OtherProcess
    /\ kernel_step("other_ungrabs", k, [keyboards[k] EXCEPT !.grabber = 0])

\* MagicKeyboard.__init__ with the bindings `ks`, every keyboard plugged in
LifeInit(ks) ==
    /\ bindings = [k \in ks |-> NewBinding]
    /\ keyboards = [k \in ks |-> Keyboard(TRUE, {}, {}, 0)]
    /\ supervisor = Supervisor("constructed", 0, 0, {})
    /\ op = Op("__init__", 0, {}, {}, FALSE, [k \in ks |-> NewBinding],
               [k \in ks |-> Keyboard(TRUE, {}, {}, 0)])
    /\ state = "PRE_MATCH_INIT"
    /\ active_modifiers = <<>>
    /\ active_keys = {}
    /\ focused_window = Window(<<>>, <<>>)
    /\ last_event = NoEvent
    /\ batch = <<>>
    /\ old = Engine("PRE_MATCH_INIT", <<>>, {}, Window(<<>>, <<>>))
    /\ vdown = {}
    /\ virtual = Virtual({}, {})
    /\ trace = TraceOff
    /\ call = NoCall
    /\ uinput = NoUInput
    /\ physical = {}

\* one binding, with hotplug, another process and write errors, up to the
\* termination signal
BindingInit == LifeInit({1})

BindingNext ==
    \/ run_forever
    \/ handle_udev_event
    \/ \E k \in DOMAIN bindings, t \in Handles, event \in LifeEvents, raises \in BOOLEAN :
          pump_event(k, t, event, raises)
    \/ \E k \in DOMAIN bindings, t \in Handles : pump_ends(k, t)
    \/ \E k \in DOMAIN bindings : unplug(k)
    \/ \E k \in DOMAIN bindings : replug(k)
    \/ \E k \in DOMAIN bindings : other_grabs(k)
    \/ \E k \in DOMAIN bindings : other_ungrabs(k)

BindingSpec == BindingInit /\ [][BindingNext]_vars

\* two bindings whose keyboards stay plugged in and whose writes succeed, with
\* the termination signal
ShutdownInit == LifeInit({1, 2})

ShutdownNext ==
    \/ run_forever
    \/ handle_udev_event
    \/ handle_SIGTERM
    \/ shutdown_retry
    \/ \E k \in DOMAIN bindings, t \in Handles, event \in LifeEvents :
          pump_event(k, t, event, FALSE)

ShutdownSpec == ShutdownInit /\ [][ShutdownNext]_vars

\* the event loop runs the callback of call_later when its delay is over
ShutdownLive == ShutdownSpec /\ WF_vars(shutdown_retry)

(***************************************************************************)
(* The specification of the capabilities that grab gives output_device     *)
(***************************************************************************)
\* a keyboard with any key capabilities, before grab; the engine is idle
CapsInit ==
    /\ \E capabilities \in SUBSET KeyCodes :
          uinput = UInput(capabilities, FALSE, {}, {}, 0, FALSE)
    /\ state = "PRE_MATCH_INIT"
    /\ active_modifiers = <<>>
    /\ active_keys = {}
    /\ focused_window = Window(<<>>, <<>>)
    /\ last_event = NoEvent
    /\ batch = <<>>
    /\ old = Engine("PRE_MATCH_INIT", <<>>, {}, Window(<<>>, <<>>))
    /\ vdown = {}
    /\ virtual = Virtual({}, {})
    /\ trace = TraceOff
    /\ call = NoCall
    /\ physical = {}
    /\ NoBindings

\* KeyboardMapping.grab once input_device.grab() has succeeded: caps is
\* computed and output_device is made
grab_capabilities ==
    /\ ~uinput.grabbed
    /\ uinput' = [uinput EXCEPT
                    !.grabbed = TRUE,
                    !.caps = caps_ev_key(uinput.capabilities, key_mappings),
                    !.output = output_capabilities(uinput.capabilities, key_mappings)]
    /\ UNCHANGED <<engine_vars, call, physical, life_vars>>

\* send_key writes the key code to output_device
write_key(keycode) ==
    /\ uinput.grabbed
    /\ uinput' = [uinput EXCEPT !.written = keycode,
                                !.delivered = keycode \in uinput.output]
    /\ UNCHANGED <<engine_vars, call, physical, life_vars>>

CapsNext ==
    \/ grab_capabilities
    \/ \E keycode \in written_key_codes(uinput.capabilities, key_mappings) :
          write_key(keycode)

CapsSpec == CapsInit /\ [][CapsNext]_vars

(***************************************************************************)
(* The engine on the stream of a keyboard whose keys are up at the grab    *)
(***************************************************************************)
\* the keyboard can deliver `event` when `held` are the keys held down: a
\* DOWN for a key that is up, a HOLD or an UP for a key that is down
well_formed(held, event) ==
    IF event.value = down THEN event.code \notin held ELSE event.code \in held

\* the keys held down after `event`
held_after(held, event) ==
    IF event.value = down THEN held \cup {event.code}
    ELSE IF event.value = up THEN held \ {event.code}
    ELSE held

\* construction, with every key of the keyboard up
StreamInit ==
    /\ state = "PRE_MATCH_INIT"
    /\ active_modifiers = <<>>
    /\ active_keys = {}
    /\ focused_window = Window(<<>>, <<>>)
    /\ last_event = NoEvent
    /\ batch = <<>>
    /\ old = Engine("PRE_MATCH_INIT", <<>>, {}, Window(<<>>, <<>>))
    /\ vdown = {}
    /\ virtual = Virtual({}, {})
    /\ trace = TraceOff
    /\ call = NoCall
    /\ uinput = NoUInput
    /\ physical = {}
    /\ NoBindings

\* a key is pressed, repeats or is released: one run of handle_input_event
key_event(event) ==
    /\ well_formed(physical, event)
    /\ event.value = down => Cardinality(physical) < MaxHeld
    /\ take(dispatch(state, active_modifiers, active_keys, focused_window, event), event)
    /\ physical' = held_after(physical, event)

StreamNext ==
    \/ \E event \in KeyEvents : key_event(event)
    \/ \E event \in OtherEvents : handle_input_event(event)
    \/ \E window \in Windows : focus_event(window)

StreamSpec == StreamInit /\ [][StreamNext]_vars

(***************************************************************************)
(* Properties of match and is_match                                        *)
(***************************************************************************)
IsMatchCalled == call.hits # <<>>

MatchCalled == call.matched # -1

\* the rule i of the call has the chord the call asks for
ChordAsked(i) ==
    call.rules[i].src_modifiers = call.modifiers /\ call.rules[i].src_key = call.key

\* C11: match returns the first rule in declaration order that matches the
\* modifiers, the key and the window: the rule returned matches and no
\* earlier rule does, and None is returned only if no rule matches.
C11_FirstMatchWins ==
    (IsMatchCalled /\ MatchCalled)
    => /\ call.matched \in 0..Len(call.rules)
       /\ call.matched # 0
          => /\ call.hits[call.matched]
             /\ \A j \in 1..(call.matched - 1) : ~call.hits[j]
       /\ call.matched = 0 => \A i \in 1..Len(call.rules) : ~call.hits[i]

\* two rules with the chord asked for and different predicates both match,
\* and the earlier one is returned
C11_Witness ==
    /\ IsMatchCalled /\ MatchCalled
    /\ Len(call.rules) >= 2
    /\ ChordAsked(1) /\ ChordAsked(2)
    /\ call.rules[1] # call.rules[2]
    /\ call.hits[1] /\ call.hits[2]
    /\ call.matched = 1

\* the result of one pattern as C12 states it: searched in the field, also
\* in an empty one, and inverted for the NOT kinds
StatedPattern(pattern, field, neg) ==
    IF neg THEN ~re_search(pattern, field) ELSE re_search(pattern, field)

\* the predicate of the dict `patterns` as C12 states it: a missing pattern is
\* no constraint under ALL and NOT_ALL and false under ANY and NOT_ANY
StatedDict(patterns, neg, disj, window) ==
    IF disj
    THEN \/ patterns.class # None /\ StatedPattern(patterns.class, window.class_, neg)
         \/ patterns.title # None /\ StatedPattern(patterns.title, window.title, neg)
    ELSE /\ patterns.class # None => StatedPattern(patterns.class, window.class_, neg)
         /\ patterns.title # None => StatedPattern(patterns.title, window.title, neg)

StatedPredicate(rule, window) ==
    IF rule.match # NoPatterns THEN StatedDict(rule.match, FALSE, FALSE, window)
    ELSE IF rule.match_or # NoPatterns THEN StatedDict(rule.match_or, FALSE, TRUE, window)
    ELSE IF rule.match_not # NoPatterns THEN StatedDict(rule.match_not, TRUE, FALSE, window)
    ELSE IF rule.match_not_or # NoPatterns
    THEN StatedDict(rule.match_not_or, TRUE, TRUE, window)
    ELSE TRUE

\* C12: for a window with a field that is not empty, is_match is true iff the
\* modifiers and the key are the rule's and the predicate holds with every
\* pattern searched in its field of the window, also in an empty field.
C12_EveryPatternSearched ==
    (IsMatchCalled /\ call.window # EmptyWindow)
    => \A i \in 1..Len(call.rules) :
           call.hits[i] = (ChordAsked(i) /\ StatedPredicate(call.rules[i], call.window))

\* C13: with the class and the title of the window both empty, is_match is
\* true iff the modifiers and the key are the rule's, whatever its predicate.
C13_EmptyWindowMatchesOnKeys ==
    (IsMatchCalled /\ call.window = EmptyWindow)
    => \A i \in 1..Len(call.rules) : call.hits[i] = ChordAsked(i)

\* a rule that asks for the class fox matches in the empty window
C13_Witness ==
    /\ IsMatchCalled
    /\ call.window = EmptyWindow
    /\ ChordAsked(1)
    /\ call.rules[1].match = Patterns(firefox, None)
    /\ call.hits[1]

(***************************************************************************)
(* Properties of the bindings and of shutdown                              *)
(***************************************************************************)
\* the binding b holds the exclusive grab of its keyboard kb with the handle
\* input_device, and its virtual device and its running pump task exist
Grabbed(b, kb) ==
    /\ kb.present
    /\ b.input_device # 0
    /\ b.input_device \in kb.opened \ kb.gone
    /\ kb.grabber = b.input_device
    /\ b.output_device # 0
    /\ b.async_task \in b.tasks

\* C14: ungrab() called while the engine is not in PRE_MATCH_INIT returns
\* False and changes nothing: the binding (handle, virtual device, pump task,
\* engine) and the keyboard (open handles, grab) are as before the call.
C14_UngrabRefusedMidChord ==
    \A k \in op.called :
        op.before[k].state # "PRE_MATCH_INIT"
        => /\ k \notin op.ok
           /\ bindings[k] = op.before[k]
           /\ keyboards[k] = op.kbefore[k]

\* shutdown called ungrab() on a grabbed binding in the middle of a chord
C14_Witness ==
    \E k \in op.called :
        /\ op.before[k].state = "pre_match_pressed_modifier"
        /\ Grabbed(op.before[k], op.kbefore[k])
        /\ Grabbed(bindings[k], keyboards[k])

\* C15: grab() on a binding that is grabbed already leaves the binding and
\* its keyboard as they were: the handle that holds the grab is still
\* input_device, the virtual device and the pump task are the same, and a
\* later ungrab() in PRE_MATCH_INIT returns True.
C15_GrabIdempotent ==
    \A k \in DOMAIN bindings :
        (op.name = "handle_udev_event" /\ Grabbed(op.before[k], op.kbefore[k]))
        => /\ bindings[k] = op.before[k]
           /\ keyboards[k] = op.kbefore[k]
           /\ bindings[k].state = "PRE_MATCH_INIT"
              => ungrab(bindings[k], keyboards[k]).ok

\* C16: an ungrab() that returns True leaves the binding with input_device,
\* output_device and _async_task None, no handle open, the grab released and
\* no pump task left, and an ungrab() right after it returns True and changes
\* nothing.
C16_UngrabReleasesAll ==
    \A k \in op.ok :
        /\ bindings[k].input_device = 0
        /\ bindings[k].output_device = 0
        /\ bindings[k].async_task = 0
        /\ bindings[k].tasks = {}
        /\ keyboards[k].opened = {}
        /\ keyboards[k].grabber = 0
        /\ ungrab(bindings[k], keyboards[k]) = Held(bindings[k], keyboards[k], TRUE)

\* shutdown's ungrab() returned True for a binding that was grabbed
C16_Witness ==
    \E k \in op.ok :
        /\ Grabbed(op.before[k], op.kbefore[k])
        /\ op.before[k].state = "PRE_MATCH_INIT"
        /\ op.name = "shutdown"

\* C17: in every state input_device is set iff output_device is set iff the
\* binding's handle holds the grab, and a running pump task exists iff
\* input_device is set.
C17_HandlesTogether ==
    \A k \in DOMAIN bindings :
        /\ (bindings[k].input_device # 0) <=> (bindings[k].output_device # 0)
        /\ (bindings[k].input_device # 0)
           <=> (keyboards[k].grabber # 0
                /\ keyboards[k].grabber = bindings[k].input_device)
        /\ (bindings[k].tasks # {}) <=> (bindings[k].input_device # 0)

\* the latest step was a round of ungrab() calls of shutdown
ShutdownRound == op.name \in {"handle_SIGTERM", "shutdown"} /\ op.called # {}

\* C18: every round of shutdown calls ungrab() on each binding whatever the
\* others return, so when the loop is stopped no binding whose engine stayed
\* in PRE_MATCH_INIT since the signal holds its keyboard grabbed.
C18_EveryBindingUngrabbed ==
    /\ ShutdownRound => op.called = DOMAIN bindings
    /\ supervisor.phase = "stopped"
       => \A k \in supervisor.steady : keyboards[k].grabber \notin Handles

\* C19: after the signal shutdown ends by stopping the loop: at the first
\* round in which every ungrab() returns True, else it retries, and after at
\* most 4 rounds it stops the loop whatever the engines' states.
C19_ShutdownStops ==
    /\ [](/\ supervisor.rounds <= 4
          /\ (ShutdownRound /\ op.ok = DOMAIN bindings) => supervisor.phase = "stopped"
          /\ (ShutdownRound /\ op.ok # DOMAIN bindings) => supervisor.phase = "draining"
          /\ supervisor.phase = "draining" => supervisor.tried_count = supervisor.rounds)
    /\ (supervisor.phase = "draining") ~> (supervisor.phase = "stopped")

\* the loop is stopped after 4 rounds with an engine in the middle of a chord
C19_Witness ==
    /\ supervisor.phase = "stopped"
    /\ supervisor.rounds = 4
    /\ op.called = {}
    /\ \E k \in DOMAIN bindings : bindings[k].state # "PRE_MATCH_INIT"

\* C20: a write that raises while an input event is handled leaves the pump
\* task running and the handle open and grabbed.
C20_WriteErrorNotFatal ==
    (op.name = "pump_event" /\ op.raised)
    => /\ bindings[op.k].tasks = op.before[op.k].tasks
       /\ bindings[op.k].input_device = op.before[op.k].input_device
       /\ keyboards[op.k] = op.kbefore[op.k]

(***************************************************************************)
(* The end of the pump                                                     *)
(***************************************************************************)
\* the step made a virtual device for the binding k
MadeOutput(k) ==
    /\ op.name \in {"run_forever", "handle_udev_event"}
    /\ bindings[k].output_device # 0
    /\ bindings[k].output_device # op.before[k].output_device

\* C21: when the pump task has ended on a failed read the binding holds
\* neither a physical handle nor a virtual device, whatever the state of the
\* engine, and a grab that makes a virtual device does not replace one that
\* is still open.
C21_PumpEndReleasesHandles ==
    /\ op.name = "pump_ends" =>
          /\ bindings[op.k].input_device = 0
          /\ bindings[op.k].output_device = 0
    /\ \A k \in DOMAIN bindings : MadeOutput(k) => op.before[k].output_device = 0

(***************************************************************************)
(* The capabilities of the virtual device                                  *)
(***************************************************************************)
\* C22: the virtual device that grab makes has as key capabilities the union
\* of the keyboard's and of every key code the rules refer to, and every key
\* code the engine writes is one of them and is delivered.
C22_CapabilitiesCoverRules ==
    uinput.grabbed =>
        /\ uinput.output = uinput.capabilities \cup rule_key_codes(key_mappings)
        /\ uinput.written # 0 => uinput.written \in uinput.output /\ uinput.delivered

(***************************************************************************)
(* The batches of writes                                                   *)
(***************************************************************************)
\* the latest step was handle_input_event
Handled == last_event # NoEvent

\* the places of `writes` before the last one that hold a sync marker which
\* is not the input event `event` written through
EarlySyncs(writes, event) ==
    {i \in 1..(Len(writes) - 1) : writes[i] = SynEvent /\ ~(i = 1 /\ event = SynEvent)}

\* the last n elements of seq
Suffix(seq, n) == SubSeq(seq, Len(seq) - n + 1, Len(seq))

\* C23: the events written for one input event are one batch: when the batch
\* is not empty it is one event or more followed by one sync marker, which is
\* its last element, and no sync marker is written earlier in the batch (an
\* input event that is itself a sync event is written through as the event
\* of its batch); an input event that writes no event writes no sync marker;
\* and the batch of the latest input event is the end of the output, so the
\* batches are written in the order of arrival of their input events.
C23_BatchEndsWithOneSync ==
    Handled =>
        /\ batch # <<>> =>
              /\ Len(batch) >= 2
              /\ batch[Len(batch)] = SynEvent
              /\ EarlySyncs(batch, last_event) = {}
        /\ trace.on =>
              /\ trace.inp # <<>>
              /\ trace.inp[Len(trace.inp)] = last_event
              /\ Len(batch) <= Len(trace.out)
              /\ Suffix(trace.out, Len(batch)) = batch

\* a chord was resolved as a rule with two destination modifiers, after an
\* earlier batch
C23_Witness ==
    /\ last_event.type = EV_KEY
    /\ state = "matched"
    /\ Len(batch) >= 5
    /\ trace.on
    /\ Len(trace.out) > Len(batch)

(***************************************************************************)
(* The window a chord resolution reads                                     *)
(***************************************************************************)
\* the latest step was a key event that ran try_match_key
Resolved == KeyStep /\ state \in {"matched", "unmatched"} /\ batch # <<>>

\* C24: whatever the order of the focus events and the key events, the window
\* that a chord resolution reads is the empty pair of construction or the
\* (class, title) pair of one focus event, never the class of one event with
\* the title of another; the same holds of focused_window between any two steps.
C24_WindowPairIsWhole ==
    /\ focused_window \in {EmptyWindow} \cup Windows
    /\ Resolved => old.window \in {EmptyWindow} \cup Windows

\* a chord was resolved with the window of a focus event
C24_Witness == Resolved /\ old.window = Window(firefox, vim)

(***************************************************************************)
(* The state of the engine and what it tracks                              *)
(***************************************************************************)
\* C26: between two events the state determines the tracking sets: the state
\* is PRE_MATCH_INIT exactly when active_modifiers and active_keys are both
\* empty; in PRE_MATCH_PRESSED_KEY no modifier is tracked and some key is; in
\* PRE_MATCH_PRESSED_MODIFIER no key is tracked, some modifier is, and every
\* tracked modifier has send_out = True; in MATCHED and UNMATCHED a modifier
\* or a key is tracked.
C26_StateDeterminesTracking ==
    /\ state = "PRE_MATCH_INIT" <=> (active_modifiers = <<>> /\ active_keys = {})
    /\ state = "pre_match_pressed_key" =>
          active_modifiers = <<>> /\ active_keys # {}
    /\ state = "pre_match_pressed_modifier" =>
          /\ active_keys = {}
          /\ active_modifiers # <<>>
          /\ \A i \in 1..Len(active_modifiers) : active_modifiers[i].send_out
    /\ state \in {"matched", "unmatched"} =>
          active_modifiers # <<>> \/ active_keys # {}

\* after a resolution the key is released and a modifier pressed, which is
\* tracked with send_out = False
C26_Witness ==
    /\ KeyStep
    /\ state \in {"matched", "unmatched"}
    /\ active_keys = {}
    /\ \E i \in 1..Len(active_modifiers) : ~active_modifiers[i].send_out

\* C27: the virtual down set, the keys whose last written event is DOWN or
\* HOLD, is empty in PRE_MATCH_INIT, MATCHED and UNMATCHED, also while
\* modifiers are still tracked after a chord; it is active_keys in
\* PRE_MATCH_PRESSED_KEY and the tracked modifiers in PRE_MATCH_PRESSED_MODIFIER.
C27_VirtualDownByState ==
    /\ state \in {"PRE_MATCH_INIT", "matched", "unmatched"} => virtual.down = {}
    /\ state = "pre_match_pressed_key" => virtual.down = active_keys
    /\ state = "pre_match_pressed_modifier" => virtual.down = dict_keys(active_modifiers)

\* a chord has been resolved and its modifiers are still tracked
C27_Witness ==
    /\ state \in {"matched", "unmatched"}
    /\ Resolved
    /\ Len(active_modifiers) = 2
    /\ virtual.before = dict_keys(active_modifiers)

(***************************************************************************)
(* The resolution of a chord from PRE_MATCH_PRESSED_MODIFIER               *)
(***************************************************************************)
\* the latest step was the DOWN of a key that is no modifier, in
\* PRE_MATCH_PRESSED_MODIFIER
ChordDown ==
    /\ KeyStep
    /\ old.state = "pre_match_pressed_modifier"
    /\ ~is_modifier(last_event.code)
    /\ last_event.value = down

\* the tracked modifiers that were sent out before the latest step
EmittedBefore ==
    {old.active_modifiers[i].key :
        i \in {j \in 1..Len(old.active_modifiers) : old.active_modifiers[j].send_out}}

\* the destination of the resolution: that of the rule, or the chord itself
DstModifiersBefore ==
    IF RuleBefore = 0 THEN dict_keys(old.active_modifiers)
    ELSE key_mappings[RuleBefore].dst_modifiers

DstKeyBefore ==
    IF RuleBefore = 0 THEN last_event.code ELSE key_mappings[RuleBefore].dst_key

\* from the place `from` on, `writes` holds one event of value v for each key
\* of `codes` and these only
Group(writes, from, codes, v) ==
    /\ \A i \in from..(from + Cardinality(codes) - 1) :
          writes[i].type = EV_KEY /\ writes[i].value = v
    /\ {writes[i].code : i \in from..(from + Cardinality(codes) - 1)} = codes

\* `writes` is: the UPs of `ups`, the DOWNs of `downs`, dst_key DOWN, dst_key
\* UP, the UPs of dst_modifiers, one sync
ResolutionShape(writes, ups, downs, dst_modifiers, dst_key) ==
    /\ Len(writes) = Cardinality(ups) + Cardinality(downs) + Cardinality(dst_modifiers) + 3
    /\ Group(writes, 1, ups, up)
    /\ Group(writes, Cardinality(ups) + 1, downs, down)
    /\ writes[Cardinality(ups) + Cardinality(downs) + 1] = Key(dst_key, down)
    /\ writes[Cardinality(ups) + Cardinality(downs) + 2] = Key(dst_key, up)
    /\ Group(writes, Cardinality(ups) + Cardinality(downs) + 3, dst_modifiers, up)
    /\ writes[Len(writes)] = SynEvent

\* `writes` holds the DOWN of a modifier that is down on the virtual device
\* at that place, `before` being the keys down before the first of them
DownWhileDown(before, writes) ==
    \E i \in 1..Len(writes) :
        /\ writes[i].type = EV_KEY
        /\ writes[i].value = down
        /\ is_modifier(writes[i].code)
        /\ writes[i].code \in pressed_after(before, SubSeq(writes, 1, i - 1))

\* C25: the DOWN of a key K that is no modifier, in PRE_MATCH_PRESSED_MODIFIER,
\* writes in this order the UPs of the tracked modifiers that were sent out
\* and are no destination modifier, the DOWNs of the destination modifiers
\* that are not sent out, dst_key DOWN, dst_key UP, the UP of every
\* destination modifier and one sync, where the destination is that of the
\* first matching rule, or the tracked modifiers and K when no rule matches;
\* no modifier gets a DOWN while it is down on the virtual device; the engine
\* is then in MATCHED when a rule matched and in UNMATCHED otherwise.
C25_ResolutionOrder ==
    ChordDown =>
        /\ ResolutionShape(batch, EmittedBefore \ DstModifiersBefore,
                           DstModifiersBefore \ EmittedBefore,
                           DstModifiersBefore, DstKeyBefore)
        /\ ~DownWhileDown(virtual.before, batch)
        /\ state = IF RuleBefore = 0 THEN "unmatched" ELSE "matched"

\* alt+i was resolved as shift+a: alt UP and shift DOWN come before the tap
C25_Witness ==
    /\ ChordDown
    /\ RuleBefore # 0
    /\ EmittedBefore \ DstModifiersBefore # {}
    /\ DstModifiersBefore \ EmittedBefore # {}

(***************************************************************************)
(* The engine when every key is released                                   *)
(***************************************************************************)
\* a grabbed binding whose engine is the engine
GrabbedNow == Binding(state, active_modifiers, active_keys, 1, 1, 1, {1})

\* C28: on a stream where a key gets a DOWN only when it is up and a HOLD or
\* an UP only when it is down, from construction with every key up, the engine
\* is in PRE_MATCH_INIT whenever every key is up, and ungrab() of a grabbed
\* binding then succeeds; the keys the engine tracks are held down.
C28_AllUpIsInit ==
    /\ Tracked \subseteq physical
    /\ physical = {} =>
          /\ state = "PRE_MATCH_INIT"
          /\ ungrab(GrabbedNow, Keyboard(TRUE, {1}, {}, 1)).ok

\* the last key of a resolved chord has been released
C28_Witness ==
    /\ physical = {}
    /\ KeyStep
    /\ last_event.value = up
    /\ old.state \in {"matched", "unmatched"}

====
